---- MODULE Spec2Model ----
(***************************************************************************)
(* A model of Backend/lambda_function.py: the Lambda entry point that      *)
(* routes a request either to one of the Cognito user-administration       *)
(* handlers or to the RepairShopr proxy.  One step of the model is one     *)
(* invocation of lambda_handler, run to completion.                        *)
(***************************************************************************)
EXTENDS Integers, Sequences, FiniteSets, TLC

\* TLC keeps the fields of a record in the order in which their names first occur
\* in the module; every record of the model lists its fields in this order
FieldOrder ==
  [add |-> 1, body |-> 2, calls |-> 3, checked |-> 4, create |-> 5,
   delete |-> 6, details |-> 7, dir_calls |-> 8, email |-> 9, error |-> 10,
   exc |-> 11, fields |-> 12, group |-> 13, groups |-> 14,
   groupsClaim |-> 15, handler |-> 16, hasMessage |-> 17, headers |-> 18,
   httpMethod |-> 19, invite |-> 20, isNone |-> 21, isObject |-> 22,
   items |-> 23, iterable |-> 24, kind |-> 25, list |-> 26,
   list_users |-> 27, lookup |-> 28, manage |-> 29, message |-> 30,
   method |-> 31, obj |-> 32, ok |-> 33, op |-> 34, otp |-> 35, parts |-> 36,
   path |-> 37, pool |-> 38, raised |-> 39, remove |-> 40, response |-> 41,
   shape |-> 42, status |-> 43, statusCode |-> 44, status_code |-> 45,
   suggestion |-> 46, text |-> 47, up_calls |-> 48, url |-> 49, user |-> 50,
   username |-> 51, users |-> 52, value |-> 53]

(***************************************************************************)
(* Bounds of the model.                                                    *)
(***************************************************************************)
\* number of distinct usernames (e-mail addresses) the user pool can hold
NumUsers == 1
\* longest list of group names the authorization predicates are applied to
MaxGroupsLen == 3

(***************************************************************************)
(* Values.                                                                 *)
(***************************************************************************)
NULL == "<None>"

API_KEY == "server-api-key"
TARGET_URL == "https://Cacell.repairshopr.com/api/v1"

ApplicationAdmin == "TrueTickets-Cacell-ApplicationAdmin"
Owner == "TrueTickets-Cacell-Owner"
Manager == "TrueTickets-Cacell-Manager"
Employee == "TrueTickets-Cacell-Employee"

\* the groups that exist in the user pool
PoolGroupSeq == <<Employee, Manager, Owner>>
PoolGroups == {PoolGroupSeq[i] : i \in 1..Len(PoolGroupSeq)}

UsernameSeq == <<"u1@example.com", "u2@example.com", "u3@example.com",
                "u4@example.com">>
Usernames == {UsernameSeq[i] : i \in 1..NumUsers}
UserStatus == {"CONFIRMED", "FORCE_CHANGE_PASSWORD"}
ABSENT == "ABSENT"

\* dict.update(other): the keys of other win
DictUpdate(d, other) ==
  [k \in (DOMAIN d) \cup (DOMAIN other) |->
     IF k \in DOMAIN other THEN other[k] ELSE d[k]]

EmptyDict == [k \in {} |-> NULL]

get_cors_headers ==
  [h \in {"Access-Control-Allow-Origin", "Access-Control-Allow-Headers",
          "Access-Control-Allow-Methods", "Access-Control-Max-Age"} |->
     CASE h = "Access-Control-Allow-Origin" -> "*"
       [] h = "Access-Control-Allow-Headers" ->
            "Content-Type,X-Amz-Date,Authorization,X-Api-Key,X-Amz-Security-Token"
       [] h = "Access-Control-Allow-Methods" -> "GET,POST,PUT,DELETE,OPTIONS"
       [] h = "Access-Control-Max-Age" -> "86400"]

\* the header literal repeated in every return of handle_repairshopr_proxy
ProxyCorsHeaders ==
  [h \in {"Access-Control-Allow-Origin", "Access-Control-Allow-Headers",
          "Access-Control-Allow-Methods"} |->
     CASE h = "Access-Control-Allow-Origin" -> "*"
       [] h = "Access-Control-Allow-Headers" ->
            "Content-Type,X-Amz-Date,Authorization,X-Api-Key,X-Amz-Security-Token"
       [] h = "Access-Control-Allow-Methods" -> "GET,POST,PUT,DELETE,OPTIONS"]

ContentTypeJson == [h \in {"Content-Type"} |-> "application/json"]

\* a body produced by json.dumps(obj), and a body that is a text taken as is
JsonBody(obj) == [kind |-> "json", obj |-> obj, text |-> ""]
RawBody(text) == [kind |-> "raw", obj |-> EmptyDict, text |-> text]

Response(status, headers, body) ==
  [body |-> body, headers |-> headers, statusCode |-> status]

(***************************************************************************)
(* Authorization policy and claims extraction.                             *)
(***************************************************************************)
\* the groups claim of the authorizer context, by shape:
\*   absent            the claim (or a mapping on the way to it) is missing
\*   nocontext         requestContext is null, so .get fails inside the try
\*   list              a list of values
\*   string            one string, the text
\*   other             any other type, here a number
\* groups.split(","): the pieces between the commas, as they are written
RECURSIVE SplitFrom(_, _, _, _)
SplitFrom(text, i, start, pieces) ==
  IF i > Len(text) THEN Append(pieces, SubSeq(text, start, Len(text)))
  ELSE IF SubSeq(text, i, i) = ","
  THEN SplitFrom(text, i + 1, i + 1, Append(pieces, SubSeq(text, start, i - 1)))
  ELSE SplitFrom(text, i + 1, start, pieces)

str_split(text) == SplitFrom(text, 1, 1, <<>>)

get_user_groups_from_event(event) ==
  LET c == event.groupsClaim
  IN  CASE c.kind = "absent" -> [items |-> <<>>, iterable |-> TRUE]
        [] c.kind = "nocontext" -> [items |-> <<>>, iterable |-> TRUE]
        [] c.kind = "list" -> [items |-> c.parts, iterable |-> TRUE]
        [] c.kind = "string" -> [items |-> str_split(c.text), iterable |-> TRUE]
        [] OTHER -> [items |-> <<>>, iterable |-> FALSE]

\* a slip the code does not make: Manager left out of the inviters
can_invite_users_NoManager(user_groups) ==
  \E i \in 1..Len(user_groups) :
     user_groups[i] \in {ApplicationAdmin, Owner}

can_invite_users(user_groups) ==
  \E i \in 1..Len(user_groups) :
     user_groups[i] \in {ApplicationAdmin, Owner, Manager}

can_manage_users(user_groups) ==
  \E i \in 1..Len(user_groups) :
     user_groups[i] \in {ApplicationAdmin, Owner}

get_default_group_for_inviter(user_groups) == Employee

(***************************************************************************)
(* The Cognito user pool, as the handlers see it through the boto3 client. *)
(* pool.status[u] is ABSENT when the pool holds no entry for u.  A call    *)
(* that fails leaves the pool as it was.  fault is the environment's       *)
(* choice to fail the call for a reason of its own (throttling, an         *)
(* internal error of the service).                                         *)
(***************************************************************************)
DirCall(op, user, group, result) ==
  [error |-> result.error, group |-> group, op |-> op, user |-> user]

DirOk(pool, value) ==
  [error |-> NULL, ok |-> TRUE, pool |-> pool, value |-> value]
DirError(pool, error) ==
  [error |-> error, ok |-> FALSE, pool |-> pool, value |-> <<>>]

\* the groups of a user in the order the service lists them
GroupList(groups) ==
  SelectSeq(PoolGroupSeq, LAMBDA g : g \in groups)

admin_create_user(pool, username, fault) ==
  IF fault THEN DirError(pool, "InternalErrorException")
  ELSE IF pool.status[username] # ABSENT
  THEN DirError(pool, "UsernameExistsException")
  ELSE DirOk([groups |-> [pool.groups EXCEPT ![username] = {}], status |-> [pool.status EXCEPT ![username] = "FORCE_CHANGE_PASSWORD"]],
             <<username>>)

admin_add_user_to_group(pool, username, group, fault) ==
  IF fault THEN DirError(pool, "InternalErrorException")
  ELSE IF username \notin Usernames \/ pool.status[username] = ABSENT
  THEN DirError(pool, "UserNotFoundException")
  ELSE IF group \notin PoolGroups
  THEN DirError(pool, "ResourceNotFoundException")
  ELSE DirOk([pool EXCEPT !.groups[username] = @ \cup {group}], <<>>)

admin_remove_user_from_group(pool, username, group, fault) ==
  IF fault THEN DirError(pool, "InternalErrorException")
  ELSE IF username \notin Usernames \/ pool.status[username] = ABSENT
  THEN DirError(pool, "UserNotFoundException")
  ELSE IF group \notin PoolGroups
  THEN DirError(pool, "ResourceNotFoundException")
  ELSE DirOk([pool EXCEPT !.groups[username] = @ \ {group}], <<>>)

admin_list_groups_for_user(pool, username, fault) ==
  IF fault THEN DirError(pool, "InternalErrorException")
  ELSE IF username \notin Usernames \/ pool.status[username] = ABSENT
  THEN DirError(pool, "UserNotFoundException")
  ELSE DirOk(pool, GroupList(pool.groups[username]))

admin_delete_user(pool, username, fault) ==
  IF fault THEN DirError(pool, "InternalErrorException")
  ELSE IF username \notin Usernames \/ pool.status[username] = ABSENT
  THEN DirError(pool, "UserNotFoundException")
  ELSE DirOk([groups |-> [pool.groups EXCEPT ![username] = {}], status |-> [pool.status EXCEPT ![username] = ABSENT]], <<>>)

list_users(pool, fault) ==
  IF fault THEN DirError(pool, "InternalErrorException")
  ELSE DirOk(pool, SelectSeq(SubSeq(UsernameSeq, 1, NumUsers),
                             LAMBDA u : pool.status[u] # ABSENT))

(***************************************************************************)
(* Request bodies.  event.body by shape:                                   *)
(*   absent   the event has no body key, so the default "{}" is parsed     *)
(*   null     the body is None          (json.loads raises TypeError)      *)
(*   empty    the body is ""            (json.loads raises JSONDecodeError)*)
(*   invalid  the body is no JSON text  (json.loads raises JSONDecodeError)*)
(*   array    the body is a JSON array  (body.get raises AttributeError)   *)
(*   object   the body is a JSON object with the fields given; a field    *)
(*            that is missing or null is NULL, an empty string is ""       *)
(***************************************************************************)
NoFields == [email |-> NULL, group |-> NULL, otp |-> NULL, username |-> NULL]

json_loads(body) ==
  CASE body.shape = "absent" -> [fields |-> NoFields, isObject |-> TRUE, raised |-> FALSE]
    [] body.shape = "object" -> [fields |-> body.fields, isObject |-> TRUE, raised |-> FALSE]
    [] body.shape = "array" -> [fields |-> NoFields, isObject |-> FALSE, raised |-> FALSE]
    [] OTHER -> [fields |-> NoFields, isObject |-> FALSE, raised |-> TRUE]

\* Python's "not x" for a field of the body
Falsy(x) == x \in {NULL, ""}

(***************************************************************************)
(* What a handler hands back: the response it returns, or the exception    *)
(* it lets escape; the pool as it leaves it; the directory calls and the   *)
(* upstream calls it made, in order.                                       *)
(***************************************************************************)
Returned(resp, pool, dir_calls, up_calls) ==
  [dir_calls |-> dir_calls, exc |-> NULL, pool |-> pool, raised |-> FALSE, response |-> resp, up_calls |-> up_calls]

Raised(exc, pool, dir_calls, up_calls) ==
  [dir_calls |-> dir_calls, exc |-> exc, pool |-> pool, raised |-> TRUE, response |-> Response(0, EmptyDict, RawBody("")), up_calls |-> up_calls]

ErrorBody(msg) == JsonBody([error |-> msg])

(***************************************************************************)
(* The user-administration handlers.  faults names the directory calls     *)
(* the environment fails during this request.                              *)
(***************************************************************************)
\* a slip the code does not make: the group is added and success is reported
\* whether or not the entry could be created
InviteSteps_AddRegardless(email, user_groups, pool, faults) ==
  LET created == admin_create_user(pool, email, faults.create)
      default_group == get_default_group_for_inviter(user_groups)
      added == admin_add_user_to_group(created.pool, email, default_group, faults.add)
      calls2 == <<DirCall("admin_create_user", email, NULL, created),
                  DirCall("admin_add_user_to_group", email, default_group, added)>>
  IN  Returned(Response(200, ContentTypeJson,
                 JsonBody([message |-> "Invitation sent successfully to " \o email,
                           user |-> email])),
               added.pool, calls2, <<>>)

\* handle_user_invitation from the creation of the Cognito client on
InviteSteps(email, user_groups, pool, faults) ==
  LET created == admin_create_user(pool, email, faults.create)
      default_group == get_default_group_for_inviter(user_groups)
      added == admin_add_user_to_group(created.pool, email, default_group, faults.add)
      calls1 == <<DirCall("admin_create_user", email, NULL, created)>>
      calls2 == Append(calls1,
                  DirCall("admin_add_user_to_group", email, default_group, added))
  IN  IF ~created.ok /\ created.error = "UsernameExistsException"
      THEN Returned(Response(409, ContentTypeJson,
                             ErrorBody("User with this email already exists")),
                    pool, calls1, <<>>)
      ELSE IF ~created.ok
      THEN Returned(Response(500, ContentTypeJson,
                             ErrorBody("Failed to invite user: " \o created.error)),
                    pool, calls1, <<>>)
      \* a failure of the add-to-group call is logged and ignored
      ELSE Returned(Response(200, ContentTypeJson,
                      JsonBody([message |-> "Invitation sent successfully to " \o email,
                                user |-> email])),
                    added.pool, calls2, <<>>)

handle_user_invitation(event, pool, faults) ==
  LET body == json_loads(event.body)
      email == body.fields.email
      user_groups == get_user_groups_from_event(event)
  IN  \* an exception raised before the name cognito is bound makes the
      \* clause "except cognito.exceptions.UsernameExistsException" itself
      \* fail, and that failure leaves the handler
      IF body.raised \/ ~body.isObject
      THEN Raised("UnboundLocalError", pool, <<>>, <<>>)
      ELSE IF Falsy(email)
      THEN Returned(Response(400, ContentTypeJson, ErrorBody("Email is required")),
                    pool, <<>>, <<>>)
      ELSE IF ~user_groups.iterable
      THEN Raised("UnboundLocalError", pool, <<>>, <<>>)
      ELSE IF ~can_invite_users(user_groups.items)
      THEN Returned(Response(403, ContentTypeJson,
                             ErrorBody("Insufficient permissions to invite users")),
                    pool, <<>>, <<>>)
      ELSE InviteSteps(email, user_groups.items, pool, faults)

\* the loop of handle_list_users, from the i-th listed user on
RECURSIVE ListUsersLoop(_, _, _, _, _, _)
ListUsersLoop(pool, listed, faults, i, users, calls) ==
  IF i > Len(listed) THEN [calls |-> calls, users |-> users]
  ELSE LET u == listed[i]
           got == admin_list_groups_for_user(pool, u, u \in faults.lookup)
           user_groups_list == IF got.ok THEN got.value ELSE <<>>
       IN  ListUsersLoop(pool, listed, faults, i + 1,
             Append(users, [email |-> u, groups |-> user_groups_list, username |-> u]),
             Append(calls, DirCall("admin_list_groups_for_user", u, NULL, got)))

handle_list_users(event, pool, faults) ==
  LET user_groups == get_user_groups_from_event(event)
      listed == list_users(pool, faults.list_users)
      calls1 == <<DirCall("list_users", NULL, NULL, listed)>>
      loop == ListUsersLoop(pool, listed.value, faults, 1, <<>>, calls1)
  IN  IF ~user_groups.iterable
      THEN Returned(Response(500, ContentTypeJson,
                             ErrorBody("Failed to list users: TypeError")),
                    pool, <<>>, <<>>)
      ELSE IF ~can_manage_users(user_groups.items)
      THEN Returned(Response(403, ContentTypeJson,
                             ErrorBody("Insufficient permissions to view users")),
                    pool, <<>>, <<>>)
      ELSE IF ~listed.ok
      THEN Returned(Response(500, ContentTypeJson,
                             ErrorBody("Failed to list users: " \o listed.error)),
                    pool, calls1, <<>>)
      ELSE Returned(Response(200, ContentTypeJson, JsonBody([users |-> loop.users])),
                    pool, loop.calls, <<>>)

\* the loop of handle_update_user_group over current_groups, from the i-th on:
\* a removal that fails is logged and the loop goes on
RECURSIVE RemoveEachGroup(_, _, _, _, _, _)

\* a slip the code does not make: the loop ends at the first removal that fails
RECURSIVE RemoveEachGroup_StopAtFailure(_, _, _, _, _, _)
RemoveEachGroup_StopAtFailure(pool, username, current_groups, faults, i, calls) ==
  IF i > Len(current_groups) THEN [calls |-> calls, pool |-> pool]
  ELSE LET group == current_groups[i]
           removed == admin_remove_user_from_group(pool, username, group,
                                                   group \in faults.remove)
           calls1 == Append(calls,
                       DirCall("admin_remove_user_from_group", username, group, removed))
       IN  IF ~removed.ok THEN [calls |-> calls1, pool |-> removed.pool]
           ELSE RemoveEachGroup_StopAtFailure(removed.pool, username, current_groups,
                                              faults, i + 1, calls1)

RemoveEachGroup(pool, username, current_groups, faults, i, calls) ==
  IF i > Len(current_groups) THEN [calls |-> calls, pool |-> pool]
  ELSE LET group == current_groups[i]
           removed == admin_remove_user_from_group(pool, username, group,
                                                   group \in faults.remove)
       IN  RemoveEachGroup(removed.pool, username, current_groups, faults, i + 1,
             Append(calls,
               DirCall("admin_remove_user_from_group", username, group, removed)))

handle_update_user_group(event, pool, faults) ==
  LET user_groups == get_user_groups_from_event(event)
      body == json_loads(event.body)
      username == body.fields.username
      new_group == body.fields.group
      current == admin_list_groups_for_user(pool, username, faults.list)
      calls1 == <<DirCall("admin_list_groups_for_user", username, NULL, current)>>
      loop == RemoveEachGroup(pool, username, current.value, faults, 1, calls1)
      added == admin_add_user_to_group(loop.pool, username, new_group, faults.add)
      calls2 == Append(loop.calls,
                  DirCall("admin_add_user_to_group", username, new_group, added))
      Failed(detail, p, calls) ==
        Returned(Response(500, ContentTypeJson,
                          ErrorBody("Failed to update user group: " \o detail)),
                 p, calls, <<>>)
  IN  IF ~user_groups.iterable THEN Failed("TypeError", pool, <<>>)
      ELSE IF ~can_manage_users(user_groups.items)
      THEN Returned(Response(403, ContentTypeJson,
                             ErrorBody("Insufficient permissions to manage users")),
                    pool, <<>>, <<>>)
      ELSE IF body.raised THEN Failed("JSONDecodeError", pool, <<>>)
      ELSE IF ~body.isObject THEN Failed("AttributeError", pool, <<>>)
      ELSE IF Falsy(username) \/ Falsy(new_group)
      THEN Returned(Response(400, ContentTypeJson,
                             ErrorBody("Username and group are required")),
                    pool, <<>>, <<>>)
      ELSE IF ~current.ok THEN Failed(current.error, pool, calls1)
      ELSE IF ~added.ok THEN Failed(added.error, added.pool, calls2)
      ELSE Returned(Response(200, ContentTypeJson,
                      JsonBody([message |-> "User " \o username \o " moved to group "
                                            \o new_group])),
                    added.pool, calls2, <<>>)

\* the loop of handle_remove_user over the listed groups, from the i-th on:
\* the first removal that fails ends the loop
RECURSIVE RemoveUntilFailure(_, _, _, _, _, _)
RemoveUntilFailure(pool, username, groups, faults, i, calls) ==
  IF i > Len(groups) THEN [calls |-> calls, pool |-> pool]
  ELSE LET group == groups[i]
           removed == admin_remove_user_from_group(pool, username, group,
                                                   group \in faults.remove)
           calls1 == Append(calls,
               DirCall("admin_remove_user_from_group", username, group, removed))
       IN  IF removed.ok
           THEN RemoveUntilFailure(removed.pool, username, groups, faults, i + 1, calls1)
           ELSE [calls |-> calls1, pool |-> removed.pool]

\* the answer of handle_remove_user's outer except clause
RemoveFailed(detail, pool, calls) ==
  Returned(Response(500, ContentTypeJson,
                    ErrorBody("Failed to remove user: " \o detail)),
           pool, calls, <<>>)

\* a slip the code does not make: the group removals share the outer try, so
\* a failure among them ends the operation before the deletion
RemoveSteps_AbortOnGroupFailure(username, pool, faults) ==
  LET listed == admin_list_groups_for_user(pool, username, faults.list)
      calls1 == <<DirCall("admin_list_groups_for_user", username, NULL, listed)>>
      loop == IF listed.ok
              THEN RemoveUntilFailure(pool, username, listed.value, faults, 1, calls1)
              ELSE [calls |-> calls1, pool |-> pool]
      last == loop.calls[Len(loop.calls)]
      deleted == admin_delete_user(loop.pool, username, faults.delete)
      calls2 == Append(loop.calls,
                  DirCall("admin_delete_user", username, NULL, deleted))
  IN  IF last.error # NULL THEN RemoveFailed(last.error, loop.pool, loop.calls)
      ELSE IF ~deleted.ok THEN RemoveFailed(deleted.error, deleted.pool, calls2)
      ELSE Returned(Response(200, ContentTypeJson,
                      JsonBody([message |-> "User " \o username \o " removed successfully"])),
                    deleted.pool, calls2, <<>>)

\* handle_remove_user from the creation of the Cognito client on: the listing
\* and the removals are in a try of their own, whose failure is logged
RemoveSteps(username, pool, faults) ==
  LET listed == admin_list_groups_for_user(pool, username, faults.list)
      calls1 == <<DirCall("admin_list_groups_for_user", username, NULL, listed)>>
      loop == IF listed.ok
              THEN RemoveUntilFailure(pool, username, listed.value, faults, 1, calls1)
              ELSE [calls |-> calls1, pool |-> pool]
      deleted == admin_delete_user(loop.pool, username, faults.delete)
      calls2 == Append(loop.calls,
                  DirCall("admin_delete_user", username, NULL, deleted))
  IN  IF ~deleted.ok THEN RemoveFailed(deleted.error, deleted.pool, calls2)
      ELSE Returned(Response(200, ContentTypeJson,
                      JsonBody([message |-> "User " \o username \o " removed successfully"])),
                    deleted.pool, calls2, <<>>)

handle_remove_user(event, pool, faults) ==
  LET user_groups == get_user_groups_from_event(event)
      body == json_loads(event.body)
      username == body.fields.username
  IN  IF ~user_groups.iterable THEN RemoveFailed("TypeError", pool, <<>>)
      ELSE IF ~can_manage_users(user_groups.items)
      THEN Returned(Response(403, ContentTypeJson,
                             ErrorBody("Insufficient permissions to remove users")),
                    pool, <<>>, <<>>)
      ELSE IF body.raised THEN RemoveFailed("JSONDecodeError", pool, <<>>)
      ELSE IF ~body.isObject THEN RemoveFailed("AttributeError", pool, <<>>)
      ELSE IF Falsy(username)
      THEN Returned(Response(400, ContentTypeJson, ErrorBody("Username is required")),
                    pool, <<>>, <<>>)
      ELSE RemoveSteps(username, pool, faults)

\* the one-time-passcode stubs: nothing is stored, sent or verified
handle_send_otp(event, pool) ==
  LET body == json_loads(event.body)
  IN  IF body.raised \/ ~body.isObject
      THEN Returned(Response(500, ContentTypeJson, ErrorBody("Failed to send OTP")),
                    pool, <<>>, <<>>)
      ELSE IF Falsy(body.fields.email)
      THEN Returned(Response(400, ContentTypeJson, ErrorBody("Email is required")),
                    pool, <<>>, <<>>)
      ELSE Returned(Response(200, ContentTypeJson,
                             JsonBody([message |-> "OTP sent successfully"])),
                    pool, <<>>, <<>>)

handle_verify_otp(event, pool) ==
  LET body == json_loads(event.body)
  IN  IF body.raised \/ ~body.isObject
      THEN Returned(Response(500, ContentTypeJson, ErrorBody("Failed to verify OTP")),
                    pool, <<>>, <<>>)
      ELSE IF Falsy(body.fields.email) \/ Falsy(body.fields.otp)
      THEN Returned(Response(400, ContentTypeJson,
                             ErrorBody("Email and OTP are required")),
                    pool, <<>>, <<>>)
      ELSE Returned(Response(200, ContentTypeJson,
                             JsonBody([message |-> "OTP verified successfully"])),
                    pool, <<>>, <<>>)

(***************************************************************************)
(* The RepairShopr proxy.  upstream is what requests.request does when it  *)
(* is called: it returns a response, or raises one of the exceptions of    *)
(* requests.exceptions.                                                    *)
(***************************************************************************)
\* the classes an exception raised by requests.request is an instance of
ExcBases(exc) ==
  CASE exc = "ConnectionError" -> {"ConnectionError", "RequestException"}
    [] exc = "SSLError" -> {"SSLError", "ConnectionError", "RequestException"}
    [] exc = "ConnectTimeout" ->
         {"ConnectTimeout", "ConnectionError", "Timeout", "RequestException"}
    [] exc = "ReadTimeout" -> {"ReadTimeout", "Timeout", "RequestException"}
    [] exc = "HTTPError" -> {"HTTPError", "RequestException"}
    [] exc = "TooManyRedirects" -> {"TooManyRedirects", "RequestException"}
    [] OTHER -> {exc}

IsInstance(exc, class) == class \in ExcBases(exc)

\* resp.json() of the texts the upstream sends in the model
ResponseJson(text) ==
  CASE text = "{\"message\":\"Not allowed\"}" ->
         [hasMessage |-> TRUE, isObject |-> TRUE, message |-> "Not allowed", raised |-> FALSE]
    [] text = "{\"id\":5}" ->
         [hasMessage |-> FALSE, isObject |-> TRUE, message |-> NULL, raised |-> FALSE]
    [] text = "[]" ->
         [hasMessage |-> FALSE, isObject |-> FALSE, message |-> NULL, raised |-> FALSE]
    [] OTHER ->
         [hasMessage |-> FALSE, isObject |-> FALSE, message |-> NULL, raised |-> TRUE]

ProxyHeaders == DictUpdate(ContentTypeJson, ProxyCorsHeaders)

Envelope(error, details, suggestion) ==
  JsonBody([details |-> details, error |-> error, suggestion |-> suggestion])

\* headers.pop("Authorization", None): the key is matched as it is written
DictPop(d, key) == [k \in (DOMAIN d) \ {key} |-> d[k]]

\* a slip the code does not make: every upstream 5xx is answered as 502
ProxyResponse_BadGateway(resp) ==
  IF resp.status_code >= 500
  THEN Response(502, ProxyHeaders,
         Envelope("RepairShopr API error (" \o ToString(resp.status_code) \o ")",
                  resp.text,
                  "Please check the RepairShopr API documentation for this error."))
  ELSE IF resp.status_code >= 400
  THEN Response(resp.status_code, ProxyHeaders,
         Envelope("RepairShopr API error (" \o ToString(resp.status_code) \o ")",
                  resp.text,
                  "Please check the RepairShopr API documentation for this error."))
  ELSE Response(resp.status_code, DictUpdate(resp.headers, ProxyCorsHeaders),
                RawBody(resp.text))

\* the returns of the try block once requests.request has returned resp
ProxyResponse(resp) ==
  LET error_data == ResponseJson(resp.text)
      api_error == "RepairShopr API error (" \o ToString(resp.status_code) \o ")"
  IN  IF resp.status_code = 401
      THEN Response(401, ProxyHeaders,
             Envelope("Invalid API key",
               "The RepairShopr API key is invalid, expired, or does not have the required permissions.",
               "Please check your API key in the Lambda environment variables and ensure it has the correct permissions."))
      ELSE IF resp.status_code = 403
      THEN Response(403, ProxyHeaders,
             Envelope("Insufficient permissions",
               "The RepairShopr API key does not have the required permissions for this operation.",
               "Please check your API key permissions in RepairShopr."))
      ELSE IF resp.status_code = 404
      THEN Response(404, ProxyHeaders,
             Envelope("API endpoint not found",
               "The requested RepairShopr API endpoint was not found.",
               "Please check the API endpoint URL."))
      ELSE IF resp.status_code >= 400
      THEN Response(resp.status_code, ProxyHeaders,
             Envelope(api_error,
               IF ~error_data.raised /\ error_data.isObject /\ error_data.hasMessage
               THEN error_data.message ELSE resp.text,
               "Please check the RepairShopr API documentation for this error."))
      ELSE Response(resp.status_code, DictUpdate(resp.headers, ProxyCorsHeaders),
                    RawBody(resp.text))

\* the except clauses, tried in the order they are written
ProxyFailure(exc) ==
  IF IsInstance(exc, "ConnectionError")
  THEN Response(502, ProxyHeaders,
         Envelope("Connection failed",
                  "Connection error to RepairShopr API: " \o exc,
                  "Check if the RepairShopr API is accessible and the URL is correct."))
  ELSE IF IsInstance(exc, "Timeout")
  THEN Response(504, ProxyHeaders,
         Envelope("Request timeout",
                  "Request timeout to RepairShopr API: " \o exc,
                  "The RepairShopr API is taking too long to respond."))
  ELSE IF IsInstance(exc, "HTTPError")
  THEN Response(502, ProxyHeaders,
         Envelope("HTTP error from RepairShopr API",
                  "HTTP error from RepairShopr API: " \o exc,
                  "Check if the API key is correct and has proper permissions."))
  ELSE Response(500, ProxyHeaders,
         Envelope("Internal server error",
                  "Unexpected error: " \o exc,
                  "Check the Lambda logs for more details."))

\* the headers handed to requests.request
OutboundHeaders(headers) ==
  DictUpdate(DictPop(headers, "Authorization"),
             [h \in {"Authorization"} |-> "Bearer " \o API_KEY])

handle_repairshopr_proxy(event, pool, upstream) ==
  LET method == event.httpMethod
      headers == OutboundHeaders(event.headers.items)
      full_url == TARGET_URL \o event.path
      call == [headers |-> headers, method |-> method, url |-> full_url]
  IN  IF event.headers.isNone
      THEN Returned(ProxyFailure("AttributeError"), pool, <<>>, <<>>)
      ELSE IF upstream.kind = "exception"
      THEN Returned(ProxyFailure(upstream.exc), pool, <<>>, <<call>>)
      ELSE Returned(ProxyResponse(upstream), pool, <<>>, <<call>>)

(***************************************************************************)
(* The entry point.                                                        *)
(***************************************************************************)
StartsWith(s, prefix) ==
  Len(s) >= Len(prefix) /\ SubSeq(s, 1, Len(prefix)) = prefix

\* a slip the code does not make: the administrative routes matched by path alone
Route_PathOnly(method, path) ==
  IF path = "/invite-user" THEN "handle_user_invitation"
  ELSE IF path = "/users" THEN "handle_list_users"
  ELSE IF path = "/update-user-group" THEN "handle_update_user_group"
  ELSE IF path = "/remove-user" THEN "handle_remove_user"
  ELSE IF path = "/send-otp" THEN "handle_send_otp"
  ELSE IF path = "/verify-otp" THEN "handle_verify_otp"
  ELSE "handle_repairshopr_proxy"

\* the handler the if-chain of lambda_handler selects for (method, path)
Route(method, path) ==
  IF path = "/invite-user" /\ method = "POST" THEN "handle_user_invitation"
  ELSE IF path = "/users" /\ method = "GET" THEN "handle_list_users"
  ELSE IF path = "/update-user-group" /\ method = "POST" THEN "handle_update_user_group"
  ELSE IF path = "/remove-user" /\ method = "POST" THEN "handle_remove_user"
  ELSE IF path = "/send-otp" /\ method = "POST" THEN "handle_send_otp"
  ELSE IF path = "/verify-otp" /\ method = "POST" THEN "handle_verify_otp"
  ELSE "handle_repairshopr_proxy"

\* event["path"] as the proxy handler reads it
ProxyPath(path) ==
  IF StartsWith(path, "/api") THEN SubSeq(path, 5, Len(path)) ELSE path

Dispatch(event, pool, faults, upstream) ==
  LET handler == Route(event.httpMethod, event.path)
  IN  CASE handler = "handle_user_invitation" -> handle_user_invitation(event, pool, faults)
        [] handler = "handle_list_users" -> handle_list_users(event, pool, faults)
        [] handler = "handle_update_user_group" ->
             handle_update_user_group(event, pool, faults)
        [] handler = "handle_remove_user" -> handle_remove_user(event, pool, faults)
        [] handler = "handle_send_otp" -> handle_send_otp(event, pool)
        [] handler = "handle_verify_otp" -> handle_verify_otp(event, pool)
        [] OTHER -> handle_repairshopr_proxy([event EXCEPT !.path = ProxyPath(@)],
                                             pool, upstream)

\* the except clause of lambda_handler
InternalError(exc) ==
  Response(500, DictUpdate(ContentTypeJson, get_cors_headers),
           Envelope("Internal server error: " \o exc,
                    "An unexpected error occurred in the Lambda function.",
                    "Check the Lambda logs for more details."))

\* what lambda_handler returns when the handler it entered has handed back r
AfterHandler(handler, r) ==
  [dir_calls |-> r.dir_calls, handler |-> handler, pool |-> r.pool,
   response |-> IF r.raised THEN InternalError(r.exc) ELSE r.response,
   up_calls |-> r.up_calls]

\* what lambda_handler returns when it enters no handler
NoHandler(response, pool) ==
  [dir_calls |-> <<>>, handler |-> NULL, pool |-> pool, response |-> response,
   up_calls |-> <<>>]

\* the whole invocation: the response returned to the caller, the handler
\* that was entered (NULL when none was), the pool afterwards and the calls
lambda_handler(event, pool, faults, upstream) ==
  IF event.httpMethod = "OPTIONS"
  THEN NoHandler(Response(200, get_cors_headers, RawBody("")), pool)
  ELSE IF event.httpMethod = NULL
  THEN NoHandler(InternalError("KeyError"), pool)
  ELSE IF event.path = NULL
  THEN NoHandler(InternalError("AttributeError"), pool)
  ELSE AfterHandler(Route(event.httpMethod, event.path),
                    Dispatch(event, pool, faults, upstream))

(***************************************************************************)
(* State.                                                                  *)
(***************************************************************************)
VARIABLES
  pool,          \* the Cognito user pool
  invoked,       \* TRUE while the record of the last invocation is held
  event,         \* the event of the last invocation
  upstream,      \* what requests.request did, had it been called
  handler,       \* the handler the last invocation entered, NULL for none
  response,      \* the response the last invocation returned
  dir_calls,     \* the directory calls it made, in order
  up_calls,      \* the upstream calls it made, in order
  pool_before,   \* the pool when the last invocation started
  user_groups,   \* the argument of the authorization predicates
  decision       \* what the predicates answered for user_groups

vars == <<pool, invoked, event, upstream, handler, response, dir_calls, up_calls,
          pool_before, user_groups, decision>>

policy_vars == <<user_groups, decision>>
request_vars == <<pool, invoked, event, upstream, handler, response, dir_calls,
                  up_calls, pool_before>>

(***************************************************************************)
(* Inputs.                                                                 *)
(***************************************************************************)
Pools ==
  {p \in [groups : [Usernames -> SUBSET PoolGroups], status : [Usernames -> UserStatus \cup {ABSENT}]] :
     \A u \in Usernames : p.status[u] = ABSENT => p.groups[u] = {}}

EmptyPool == [groups |-> [u \in Usernames |-> {}], status |-> [u \in Usernames |-> ABSENT]]

NoFaults == [add |-> FALSE, create |-> FALSE, delete |-> FALSE, list |-> FALSE, list_users |-> FALSE, lookup |-> {}, remove |-> {}]

NoClaim == [kind |-> "absent", parts |-> <<>>, text |-> ""]
ListClaim(parts) == [kind |-> "list", parts |-> parts, text |-> ""]
StringClaim(text) == [kind |-> "string", parts |-> <<>>, text |-> text]

\* the groups claims of the callers of the administrative routes
CallerClaims ==
  {NoClaim, ListClaim(<<Employee>>), ListClaim(<<Manager>>), ListClaim(<<Owner>>),
   ListClaim(<<Employee, ApplicationAdmin>>), StringClaim(Manager \o "," \o Employee)}

NoBody == [fields |-> NoFields, shape |-> "absent"]
BrokenBodies == {[fields |-> NoFields, shape |-> sh] : sh \in {"null", "empty", "invalid", "array"}}
ObjectBody(fields) == [fields |-> fields, shape |-> "object"]

NoHeaders == [isNone |-> FALSE, items |-> EmptyDict]
NoUpstream == [exc |-> NULL, headers |-> EmptyDict, kind |-> "unused", status_code |-> 0, text |-> ""]

Event(method, path, headers, body, claim) ==
  [body |-> body, groupsClaim |-> claim, headers |-> headers, httpMethod |-> method, path |-> path]

NoEvent == Event(NULL, NULL, NoHeaders, NoBody, NoClaim)
NoResponse == Response(0, EmptyDict, RawBody(""))

(***************************************************************************)
(* Actions.  Invoke is one run of lambda_handler on ev.                    *)
(***************************************************************************)
Invoke(ev, faults, up) ==
  \E out \in {lambda_handler(ev, pool, faults, up)} :
     /\ invoked' = TRUE
     /\ event' = ev
     /\ upstream' = up
     /\ handler' = out.handler
     /\ response' = out.response
     /\ dir_calls' = out.dir_calls
     /\ up_calls' = out.up_calls
     /\ pool' = out.pool
     /\ pool_before' = pool
     /\ UNCHANGED policy_vars

\* the runtime hands the response back and waits for the next event
NextInvocation ==
  /\ invoked
  /\ invoked' = FALSE
  /\ event' = NoEvent
  /\ upstream' = NoUpstream
  /\ handler' = NULL
  /\ response' = NoResponse
  /\ dir_calls' = <<>>
  /\ up_calls' = <<>>
  /\ pool_before' = pool
  /\ UNCHANGED <<pool, user_groups, decision>>

InviteBodies ==
  {NoBody} \cup BrokenBodies \cup
  {ObjectBody([NoFields EXCEPT !.email = e]) : e \in Usernames \cup {NULL, ""}}

InviteUser ==
  \E claim \in CallerClaims, body \in InviteBodies, fc, fa \in BOOLEAN :
     /\ ~invoked
     /\ Invoke(Event("POST", "/invite-user", NoHeaders, body, claim),
            [NoFaults EXCEPT !.create = fc, !.add = fa], NoUpstream)

ListUsers ==
  \E claim \in CallerClaims, fl \in BOOLEAN, fg \in SUBSET Usernames :
     /\ ~invoked
     /\ Invoke(Event("GET", "/users", NoHeaders, NoBody, claim),
            [NoFaults EXCEPT !.list_users = fl, !.lookup = fg], NoUpstream)

BodyGroups == PoolGroups \cup {"NoSuchGroup"}

UpdateBodies ==
  {NoBody} \cup BrokenBodies \cup
  {ObjectBody([NoFields EXCEPT !.username = u, !.group = g]) :
     u \in Usernames \cup {NULL}, g \in BodyGroups \cup {NULL}}

UpdateUserGroup ==
  \E claim \in CallerClaims, body \in UpdateBodies, fl, fa \in BOOLEAN,
     fr \in SUBSET PoolGroups :
     /\ ~invoked
     /\ Invoke(Event("POST", "/update-user-group", NoHeaders, body, claim),
            [NoFaults EXCEPT !.list = fl, !.add = fa, !.remove = fr], NoUpstream)

RemoveBodies ==
  {NoBody} \cup BrokenBodies \cup
  {ObjectBody([NoFields EXCEPT !.username = u]) : u \in Usernames \cup {NULL}}

RemoveUser ==
  \E claim \in CallerClaims, body \in RemoveBodies, fl, fd \in BOOLEAN,
     fr \in SUBSET PoolGroups :
     /\ ~invoked
     /\ Invoke(Event("POST", "/remove-user", NoHeaders, body, claim),
            [NoFaults EXCEPT !.list = fl, !.delete = fd, !.remove = fr], NoUpstream)

OtpBodies ==
  {NoBody} \cup BrokenBodies \cup
  {ObjectBody([NoFields EXCEPT !.email = e, !.otp = o]) :
     e \in Usernames \cup {NULL}, o \in {"123456", NULL}}

SendOtp ==
  \E body \in OtpBodies :
     /\ ~invoked
     /\ Invoke(Event("POST", "/send-otp", NoHeaders, body, NoClaim), NoFaults, NoUpstream)

VerifyOtp ==
  \E body \in OtpBodies :
     /\ ~invoked
     /\ Invoke(Event("POST", "/verify-otp", NoHeaders, body, NoClaim), NoFaults, NoUpstream)

Methods == {"GET", "POST", "DELETE", "OPTIONS", NULL}

AdminPaths == {"/invite-user", "/users", "/update-user-group", "/remove-user",
               "/send-otp", "/verify-otp"}

\* NULL is a path that is None; "" is what a missing path key defaults to
Paths == AdminPaths \cup {"/api/clients", "/api", "/apiary", "/clients", "", NULL}

CallerJwt == "Bearer caller-jwt"

Dict1(k, v) == [x \in {k} |-> v]

CallerHeaders ==
  {NoHeaders,
   [isNone |-> TRUE, items |-> EmptyDict],
   [isNone |-> FALSE, items |-> Dict1("Authorization", CallerJwt)],
   [isNone |-> FALSE, items |-> Dict1("authorization", CallerJwt)],
   [isNone |-> FALSE,
    items |-> DictUpdate(Dict1("AUTHORIZATION", CallerJwt),
                         Dict1("Content-Type", "application/json"))],
   [isNone |-> FALSE,
    items |-> DictUpdate(Dict1("Authorization", CallerJwt),
                         Dict1("authorization", "Bearer other-jwt"))]}

UpstreamResponse(status, text, headers) ==
  [exc |-> NULL, headers |-> headers, kind |-> "response", status_code |-> status, text |-> text]
UpstreamException(exc) ==
  [exc |-> exc, headers |-> EmptyDict, kind |-> "exception", status_code |-> 0, text |-> ""]

UpstreamStatuses == {200, 201, 204, 400, 401, 403, 404, 422, 500, 503}
UpstreamTexts == {"{\"message\":\"Not allowed\"}", "{\"id\":5}", "[]", "<html>", ""}
UpstreamHeaders ==
  {Dict1("Content-Type", "application/json"),
   DictUpdate(Dict1("Content-Type", "text/html"),
              Dict1("Access-Control-Allow-Origin", "https://elsewhere.example"))}

\* transport failures: no HTTP response was received
TransportFailures == {"ConnectionError", "SSLError", "ConnectTimeout", "ReadTimeout"}
UpstreamExceptions == TransportFailures \cup {"HTTPError", "TooManyRedirects"}

UpstreamOutcomes ==
  {UpstreamResponse(st, t, h) :
     st \in UpstreamStatuses, t \in UpstreamTexts, h \in UpstreamHeaders}
  \cup {UpstreamException(e) : e \in UpstreamExceptions}

FewUpstreamOutcomes ==
  {UpstreamResponse(200, "{\"id\":5}", Dict1("Content-Type", "application/json")),
   UpstreamResponse(500, "<html>", Dict1("Content-Type", "application/json")),
   UpstreamException("ConnectionError")}

\* any method on any path, the administrative ones included
AnyRequest ==
  \E method \in Methods, path \in Paths,
     headers \in {NoHeaders, [isNone |-> TRUE, items |-> EmptyDict]},
     up \in FewUpstreamOutcomes :
     /\ ~invoked
     /\ Invoke(Event(method, path, headers, NoBody, NoClaim), NoFaults, up)

\* requests for the proxy, with every header shape and upstream outcome
Forward ==
  \E method \in {"GET", "POST"}, path \in {"/api/clients", "/clients", "/api"},
     headers \in CallerHeaders, up \in UpstreamOutcomes :
     /\ ~invoked
     /\ Invoke(Event(method, path, headers, NoBody, NoClaim), NoFaults, up)

\* the authorization predicates applied to a list of group names
GroupNames == {ApplicationAdmin, Owner, Manager, Employee, "SomeOtherGroup"}

RECURSIVE SeqsUpTo(_, _)
SeqsUpTo(S, n) ==
  IF n = 0 THEN {<<>>}
  ELSE LET shorter == SeqsUpTo(S, n - 1)
       IN  shorter \cup {Append(q, x) : q \in {r \in shorter : Len(r) = n - 1}, x \in S}

Undecided == [checked |-> FALSE, invite |-> FALSE, manage |-> FALSE]

CheckPolicy ==
  /\ ~decision.checked
  /\ decision' = [checked |-> TRUE,
                  invite |-> can_invite_users(user_groups),
                  manage |-> can_manage_users(user_groups)]
  /\ UNCHANGED <<user_groups, pool, invoked, event, upstream, handler, response,
                 dir_calls, up_calls, pool_before>>

(***************************************************************************)
(* Specifications.                                                         *)
(***************************************************************************)
Idle ==
  /\ invoked = FALSE
  /\ event = NoEvent
  /\ upstream = NoUpstream
  /\ handler = NULL
  /\ response = NoResponse
  /\ dir_calls = <<>>
  /\ up_calls = <<>>
  /\ pool_before = pool

\* the administrative routes and the routing, over every pool
Init ==
  /\ pool \in Pools
  /\ Idle
  /\ user_groups = <<>>
  /\ decision = Undecided

Next ==
  \/ InviteUser
  \/ ListUsers
  \/ UpdateUserGroup
  \/ RemoveUser
  \/ SendOtp
  \/ VerifyOtp
  \/ AnyRequest
  \/ NextInvocation

Spec == Init /\ [][Next]_vars

\* the proxy, over every header shape and upstream outcome
InitProxy ==
  /\ pool = EmptyPool
  /\ Idle
  /\ user_groups = <<>>
  /\ decision = Undecided

NextProxy ==
  \/ Forward
  \/ NextInvocation

SpecProxy == InitProxy /\ [][NextProxy]_vars

\* the authorization predicates, over every list of group names
InitPolicy ==
  /\ pool = EmptyPool
  /\ Idle
  /\ user_groups \in SeqsUpTo(GroupNames, MaxGroupsLen)
  /\ decision = Undecided

NextPolicy == CheckPolicy

SpecPolicy == InitPolicy /\ [][NextPolicy]_vars

\* the shapes of the groups claim: group names as they may be written, with
\* spaces around them or empty
WrittenNames == {Owner, " " \o Owner, Manager \o " ", Employee, "", " "}

JoinedWithCommas(names) ==
  IF Len(names) = 1 THEN names[1] ELSE names[1] \o "," \o names[2]

ClaimShapes ==
  {NoClaim,
   [kind |-> "nocontext", parts |-> <<>>, text |-> ""],
   [kind |-> "other", parts |-> <<>>, text |-> ""]}
  \cup {ListClaim(names) : names \in SeqsUpTo(WrittenNames, 2)}
  \cup {StringClaim(JoinedWithCommas(names)) :
          names \in SeqsUpTo(WrittenNames, 2) \ {<<>>}}

\* an administrative request of a caller with any shape of groups claim
RequestAs ==
  \E claim \in ClaimShapes :
     /\ ~invoked
     /\ ~decision.checked
     /\ \/ Invoke(Event("GET", "/users", NoHeaders, NoBody, claim),
                   NoFaults, NoUpstream)
        \/ Invoke(Event("POST", "/invite-user", NoHeaders,
                         ObjectBody([NoFields EXCEPT !.email = UsernameSeq[1]]), claim),
                   NoFaults, NoUpstream)

\* what the extraction hands the handler of the request, and what the two
\* predicates make of it; a value that cannot be iterated makes them raise
ExtractGroups ==
  /\ invoked
  /\ ~decision.checked
  /\ \E groups \in {get_user_groups_from_event(event)} :
        /\ user_groups' = groups.items
        /\ decision' = [checked |-> TRUE,
                        invite |-> groups.iterable /\ can_invite_users(groups.items),
                        manage |-> groups.iterable /\ can_manage_users(groups.items)]
  /\ UNCHANGED request_vars

InitExtract ==
  /\ pool = EmptyPool
  /\ Idle
  /\ user_groups = <<>>
  /\ decision = Undecided

NextExtract ==
  \/ RequestAs
  \/ ExtractGroups
  \/ NextInvocation

SpecExtract == InitExtract /\ [][NextExtract]_vars

(***************************************************************************)
(* The claims.                                                             *)
(***************************************************************************)
Range(q) == {q[i] : i \in 1..Len(q)}

\* the group names the caller's claim carries
\* a string without the spaces around it
RECURSIVE Strip(_)
Strip(text) ==
  IF Len(text) > 0 /\ SubSeq(text, 1, 1) = " "
  THEN Strip(SubSeq(text, 2, Len(text)))
  ELSE IF Len(text) > 0 /\ SubSeq(text, Len(text), Len(text)) = " "
  THEN Strip(SubSeq(text, 1, Len(text) - 1))
  ELSE text

\* the group names the caller's claim carries: the values of a list, or the
\* pieces of a string between its commas, without the spaces around them and
\* without the empty ones
CallerGroups ==
  LET c == event.groupsClaim
      written == IF c.kind = "list" THEN Range(c.parts)
                 ELSE IF c.kind = "string" THEN Range(str_split(c.text))
                 ELSE {}
  IN  {Strip(g) : g \in written} \ {""}
MayInvite == CallerGroups \cap {ApplicationAdmin, Owner, Manager} # {}
MayManage == CallerGroups \cap {ApplicationAdmin, Owner} # {}

Status == response.statusCode

\* an HTTP header name in lower case, for the names the model uses
LowerName(k) ==
  IF k \in {"Authorization", "authorization", "AUTHORIZATION"} THEN "authorization"
  ELSE IF k = "Content-Type" THEN "content-type"
  ELSE k

\* the values a header mapping holds under a name, whatever the casing
ValuesOf(headers, name) ==
  {headers[k] : k \in {x \in DOMAIN headers : LowerName(x) = name}}

IsEnvelope(body) ==
  body.kind = "json" /\ DOMAIN body.obj = {"error", "details", "suggestion"}

DirectoryUntouched == dir_calls = <<>> /\ pool = pool_before

C2_AlwaysForbidden ==
  /\ (invoked /\ handler = "handle_user_invitation" /\ ~MayInvite)
        => (Status = 403 /\ DirectoryUntouched)
  /\ (invoked /\ handler \in {"handle_list_users", "handle_update_user_group",
                              "handle_remove_user"} /\ ~MayManage)
        => (Status = 403 /\ DirectoryUntouched)

\* What the code keeps of C2: list, update-group and remove check the caller
\* first and answer 403 whatever the body; invite reads the body first, so a
\* caller who may not invite is answered 500 for a body that is no JSON object,
\* 400 for a body without e-mail and 403 otherwise; no directory call is made.
C2_NoDirectoryCallWithoutPermission ==
  /\ (invoked /\ handler = "handle_user_invitation" /\ ~MayInvite)
        => /\ DirectoryUntouched
           /\ Status = IF event.body.shape \in {"null", "empty", "invalid", "array"} THEN 500
                       ELSE IF event.body.fields.email \in {NULL, ""} THEN 400
                       ELSE 403
  /\ (invoked /\ handler \in {"handle_list_users", "handle_update_user_group",
                              "handle_remove_user"} /\ ~MayManage)
        => (Status = 403 /\ DirectoryUntouched)

C2_ManagerRefusedUpdate ==
  /\ invoked
  /\ handler = "handle_update_user_group"
  /\ CallerGroups = {Manager}
  /\ event.body.fields.username \in Usernames
  /\ event.body.fields.group \in PoolGroups
  /\ pool.status[event.body.fields.username] # ABSENT
  /\ Status = 403
  /\ dir_calls = <<>>

\* C3: canInviteUsers holds exactly of the group lists that name ApplicationAdmin,
\* Owner or Manager, canManageUsers exactly of those that name ApplicationAdmin or
\* Owner; so managing implies inviting, Manager alone invites but does not
\* manage, and no group means neither.
C3_PolicyIsTheAllowList ==
  decision.checked =>
    /\ decision.invite =
         (Range(user_groups) \cap {ApplicationAdmin, Owner, Manager} # {})
    /\ decision.manage = (Range(user_groups) \cap {ApplicationAdmin, Owner} # {})
    /\ decision.manage => decision.invite
    /\ Range(user_groups) = {Manager} => decision.invite /\ ~decision.manage
    /\ user_groups = <<>> => ~decision.invite /\ ~decision.manage

C3_ManagerInvitesOnly ==
  /\ decision.checked
  /\ Range(user_groups) = {Manager}
  /\ Len(user_groups) > 1
  /\ decision.invite
  /\ ~decision.manage

\* C4: every response of the entry point carries the four CORS headers with
\* their fixed values.
C4_CorsOnEveryResponse ==
  invoked =>
    \A h \in DOMAIN get_cors_headers :
       h \in DOMAIN response.headers /\ response.headers[h] = get_cors_headers[h]

\* the six administrative routes
AdminRoutes ==
  {<<"POST", "/invite-user">>, <<"GET", "/users">>, <<"POST", "/update-user-group">>,
   <<"POST", "/remove-user">>, <<"POST", "/send-otp">>, <<"POST", "/verify-otp">>}

\* a request with a method other than OPTIONS that matches no administrative
\* route and whose path does not begin with /api
Unrecognized ==
  /\ invoked
  /\ event.httpMethod \notin {"OPTIONS", NULL}
  /\ event.path # NULL
  /\ <<event.httpMethod, event.path>> \notin AdminRoutes
  /\ ~StartsWith(event.path, "/api")

TransportFailed ==
  /\ invoked
  /\ up_calls # <<>>
  /\ upstream.kind = "exception"
  /\ upstream.exc \in TransportFailures

\* the transport failures that are timeouts
Timeouts == {"ConnectTimeout", "ReadTimeout"}

\* C6: a transport failure of the one upstream call is answered 504 when it is a
\* timeout and 502 otherwise, with a JSON body of error, details and
\* suggestion; the call is made once.
C6_TimeoutIs504ElseIs502 ==
  TransportFailed =>
    /\ Status = IF upstream.exc \in Timeouts THEN 504 ELSE 502
    /\ IsEnvelope(response.body)
    /\ Len(up_calls) = 1

\* the upstream answered the last request with an HTTP response
UpstreamAnswered ==
  invoked /\ up_calls # <<>> /\ upstream.kind = "response"

\* C7 as claimed: the upstream's status code is returned as it is, and its body
\* verbatim for every status other than 401, 403 and 404.
C7_BodyVerbatimExcept401_403_404 ==
  UpstreamAnswered =>
    /\ Status = upstream.status_code
    /\ Status \notin {401, 403, 404} => response.body = RawBody(upstream.text)

\* C7 amended: the upstream's status code is returned as it is; the body is
\* the upstream's verbatim for every status below 400, and for every status
\* from 400 on it is a JSON object of error, details and suggestion, whose
\* details, for a status other than 401, 403 and 404, are the message field of
\* the upstream's JSON object or else the upstream's text.
C7_StatusKeptBodyVerbatimBelow400 ==
  UpstreamAnswered =>
    /\ Status = upstream.status_code
    /\ Status < 400 => response.body = RawBody(upstream.text)
    /\ Status >= 400 => IsEnvelope(response.body)
    /\ (Status >= 400 /\ Status \notin {401, 403, 404}) =>
          response.body.obj.details =
            IF upstream.text = "{\"message\":\"Not allowed\"}"
            THEN "Not allowed" ELSE upstream.text

C7_Upstream503Relayed ==
  /\ UpstreamAnswered
  /\ upstream.status_code = 503
  /\ upstream.text = "<html>"
  /\ Status = 503
  /\ response.body.kind = "json"
  /\ response.body.obj.details = "<html>"

\* the last request was an invite by a caller who may invite, for an e-mail
\* address the pool held an entry of
InviteOfExisting ==
  /\ invoked
  /\ handler = "handle_user_invitation"
  /\ MayInvite
  /\ event.body.shape = "object"
  /\ event.body.fields.email \in Usernames
  /\ pool_before.status[event.body.fields.email] # ABSENT

InvitedEmail == event.body.fields.email

NoCallFailedOnItsOwn ==
  \A i \in 1..Len(dir_calls) : dir_calls[i].error # "InternalErrorException"

CallsOf(op) == {i \in 1..Len(dir_calls) : dir_calls[i].op = op}

C9_ActiveAccountNotOverwritten ==
  (InviteOfExisting /\ pool_before.status[InvitedEmail] # "FORCE_CHANGE_PASSWORD")
  => /\ Status = IF NoCallFailedOnItsOwn THEN 409 ELSE 500
     /\ pool = pool_before
     /\ CallsOf("admin_add_user_to_group") = {}
     /\ CallsOf("admin_delete_user") = {}
     /\ \A i \in CallsOf("admin_create_user") : dir_calls[i].error # NULL

C9_ConfirmedEntryConflict ==
  /\ InviteOfExisting
  /\ pool_before.status[InvitedEmail] = "CONFIRMED"
  /\ pool_before.groups[InvitedEmail] = {Owner}
  /\ Status = 409
  /\ dir_calls[1].error = "UsernameExistsException"

\* the last request was an update-group that was answered 200
UpdateSucceeded ==
  invoked /\ handler = "handle_update_user_group" /\ Status = 200

UpdatedUser == event.body.fields.username
NewGroup == event.body.fields.group

\* the groups whose removal failed during the last request
RemovalsFailed ==
  {dir_calls[i].group :
     i \in {j \in CallsOf("admin_remove_user_from_group") : dir_calls[j].error # NULL}}

\* C10 as claimed: after a successful update-group the entry is a member of
\* exactly the new group, whichever removals failed.
C10_ExactlyNewGroup ==
  UpdateSucceeded => pool.groups[UpdatedUser] = {NewGroup}

\* C10 amended: after a successful update-group the entry is a member of the
\* new group and of those of its former groups whose removal failed, and of no
\* other; so of exactly the new group when no removal failed.  The same update
\* applied again without a failing call succeeds and leaves exactly the new
\* group, and changes nothing when the membership was already exactly that.
C10_NewGroupPlusFailedRemovals ==
  UpdateSucceeded =>
    /\ pool.groups[UpdatedUser] =
         {NewGroup} \cup (pool_before.groups[UpdatedUser] \cap RemovalsFailed)
    /\ RemovalsFailed = {} => pool.groups[UpdatedUser] = {NewGroup}
    /\ \A u \in Usernames \ {UpdatedUser} : pool.groups[u] = pool_before.groups[u]
    /\ pool.status = pool_before.status
    /\ LET again == handle_update_user_group(event, pool, NoFaults)
       IN  /\ again.response.statusCode = 200
           /\ again.pool.groups[UpdatedUser] = {NewGroup}
           /\ RemovalsFailed = {} => again.pool = pool

C10_MovedFromTwoGroupsToThird ==
  /\ UpdateSucceeded
  /\ pool_before.groups[UpdatedUser] = {Employee, Manager}
  /\ NewGroup = Owner
  /\ pool.groups[UpdatedUser] = {Owner}

\* the last request was a remove by a caller who may manage users, with a
\* username in its body
RemoveWithUsername ==
  /\ invoked
  /\ handler = "handle_remove_user"
  /\ MayManage
  /\ event.body.shape = "object"
  /\ event.body.fields.username \notin {NULL, ""}

\* C11: a remove by an authorised caller with a username calls the directory's
\* delete exactly once, as the last directory call, after the listing of the
\* groups and the removals, also when the listing or a removal failed; the
\* answer is 200 exactly when the delete succeeded and 500 exactly when it
\* failed.
C11_DeleteAttemptedOnceAndDecides ==
  RemoveWithUsername =>
    /\ CallsOf("admin_delete_user") = {Len(dir_calls)}
    /\ dir_calls[1].op = "admin_list_groups_for_user"
    /\ \A i \in 2..(Len(dir_calls) - 1) :
          dir_calls[i].op = "admin_remove_user_from_group"
    /\ Status \in {200, 500}
    /\ Status = 200 <=> dir_calls[Len(dir_calls)].error = NULL
    /\ Status = 500 <=> dir_calls[Len(dir_calls)].error # NULL
    /\ Status = 200 => pool.status[event.body.fields.username] = ABSENT

C11_DeletedAfterFailedRemoval ==
  /\ RemoveWithUsername
  /\ Cardinality(pool_before.groups[event.body.fields.username]) = 2
  /\ RemovalsFailed # {}
  /\ Status = 200
  /\ pool.status[event.body.fields.username] = ABSENT

C11_DeleteFailsAfterFailedListing ==
  /\ RemoveWithUsername
  /\ dir_calls[1].error # NULL
  /\ Len(dir_calls) = 2
  /\ Status = 500

\* the last request was an invite whose body carries no e-mail address
InviteWithoutEmail ==
  /\ invoked
  /\ handler = "handle_user_invitation"
  /\ \/ event.body.shape \in {"absent", "null", "empty"}
     \/ event.body.shape = "object" /\ event.body.fields.email \in {NULL, ""}

\* C12: an invite with no e-mail address (the body absent, null or empty, or a
\* JSON object without a non-empty email field) is answered 400, and no
\* directory call is made.
C12_MissingEmailIs400 ==
  InviteWithoutEmail => Status = 400 /\ DirectoryUntouched

\* What the code keeps of C12: no directory call is made; the answer is 400
\* when the body key is absent or the body is a JSON object without a non-empty
\* email field, and the router's 500 when the body is null or empty.
C12_MissingEmailNoDirectoryCall ==
  InviteWithoutEmail =>
    /\ DirectoryUntouched
    /\ Status = IF event.body.shape \in {"null", "empty"} THEN 500 ELSE 400

\* the exception the router's except clause caught during the last request,
\* NULL when it caught none; no failure of the directory or the upstream
\* reaches the router, so their outcome does not matter here
RouterCaught ==
  IF ~invoked \/ event.httpMethod = "OPTIONS" THEN NULL
  ELSE IF event.httpMethod = NULL THEN "KeyError"
  ELSE IF event.path = NULL THEN "AttributeError"
  ELSE Dispatch(event, pool_before, NoFaults, upstream).exc

\* the text holds the other as a part
Contains(text, part) ==
  \E i \in 1..(Len(text) - Len(part) + 1) :
     SubSeq(text, i, i + Len(part) - 1) = part

\* C13: a failure caught at the router boundary is answered 500 with a body of
\* error, details and suggestion in which the text of the failure does not
\* appear.
C13_Router500IsGeneric ==
  RouterCaught # NULL =>
    /\ Status = 500
    /\ IsEnvelope(response.body)
    /\ \A k \in DOMAIN response.body.obj :
          ~Contains(response.body.obj[k], RouterCaught)

\* What the code keeps of C13: a failure caught at the router boundary is
\* answered 500 with the four CORS headers and a body of error, details and
\* suggestion, whose error is "Internal server error: " and the failure's text.
C13_Router500CarriesFailureText ==
  RouterCaught # NULL =>
    /\ Status = 500
    /\ IsEnvelope(response.body)
    /\ response.body.obj.error = "Internal server error: " \o RouterCaught

\* the groups of the last request's claim have been extracted
Extracted == invoked /\ decision.checked

\* C14: for every shape of the groups claim the extraction hands back strings
\* without spaces around them and none empty, namely the group names the
\* claim carries; an absent claim and a claim that is neither a string nor a
\* collection give no group; and the predicates applied to what it hands back
\* do not fail the request.
C14_TrimmedNonEmptyNeverFails ==
  Extracted =>
    /\ \A i \in 1..Len(user_groups) :
          user_groups[i] # "" /\ user_groups[i] = Strip(user_groups[i])
    /\ Range(user_groups) = CallerGroups
    /\ event.groupsClaim.kind \in {"absent", "nocontext", "other"} => user_groups = <<>>
    /\ decision.invite = MayInvite
    /\ decision.manage = MayManage
    /\ Status # 500

\* What the code keeps of C14: an absent claim gives no group, a list is handed
\* back as it is and a string as the pieces between its commas, spaces and
\* empty pieces included; a claim of another type fails the request with 500.
C14_PiecesAsWritten ==
  Extracted =>
    /\ event.groupsClaim.kind \in {"absent", "nocontext"} => user_groups = <<>>
    /\ event.groupsClaim.kind = "list" => user_groups = event.groupsClaim.parts
    /\ event.groupsClaim.kind = "string" =>
          /\ Len(user_groups) >= 1
          /\ JoinedWithCommas(user_groups) = event.groupsClaim.text
    /\ Status = 500 <=> event.groupsClaim.kind = "other"

\* a directory call of the last request failed that is not one of the
\* best-effort ones (the lookup of a listed user's groups, and the removals
\* from groups of update-group and of remove with the listing before them)
EssentialCallFailed ==
  \E i \in 1..Len(dir_calls) :
     /\ dir_calls[i].error # NULL
     /\ \/ dir_calls[i].op \in {"list_users", "admin_create_user",
                                 "admin_add_user_to_group", "admin_delete_user"}
        \/ /\ dir_calls[i].op = "admin_list_groups_for_user"
           /\ handler = "handle_update_user_group"

IsErrorBody(body) == body.kind = "json" /\ "error" \in DOMAIN body.obj

InviteSucceeded ==
  invoked /\ handler = "handle_user_invitation" /\ Status = 200

\* C15: a failed directory call that is not a best-effort one ends the
\* operation with an error; and whenever invite answers 200 the entry it created
\* is a member of the default group.
C15_NoPartialSuccess ==
  /\ (invoked /\ EssentialCallFailed) => (Status >= 400 /\ IsErrorBody(response.body))
  /\ InviteSucceeded => pool.groups[InvitedEmail] = {Employee}

\* What the code keeps of C15: every failed directory call that is not a
\* best-effort one ends the operation with an error, except the addition to the
\* default group in invite, whose failure is logged: invite then answers 200
\* and the created entry is in no group.
C15_OnlyInviteAddIsSwallowed ==
  /\ (invoked /\ EssentialCallFailed /\ handler # "handle_user_invitation")
        => (Status = 500 /\ IsErrorBody(response.body))
  /\ InviteSucceeded =>
        /\ Len(dir_calls) = 2
        /\ dir_calls[1].error = NULL
        /\ pool.status[InvitedEmail] = "FORCE_CHANGE_PASSWORD"
        /\ pool.groups[InvitedEmail] =
              IF dir_calls[2].error = NULL THEN {Employee} ELSE {}
  /\ (invoked /\ handler = "handle_user_invitation" /\ Len(dir_calls) >= 1
         /\ dir_calls[1].error # NULL)
        => (Status \in {409, 500} /\ IsErrorBody(response.body))

====
